---- MODULE Spec2Model ----
(***************************************************************************)
(* Defect registry of the pipeline-monitoring front end                    *)
(* (utils/detectionUtils: getRiskLevel, generateDefectId,                  *)
(* updateDefectRegistryWithDetections, getInitialDefectRegistry).          *)
(*                                                                         *)
(* Modelling conventions                                                   *)
(*   - a JS string is a TLA+ string; template strings are built with \o.   *)
(*   - an instant is an integer number of clock ticks since 2023-12-01     *)
(*     UTC; Date#toISOString gives <<day, tickOfDay>>, the 'YYYY-MM-DD'    *)
(*     string obtained by split('T')[0] is <<day>>, and new Date(s)        *)
(*     .getTime() turns either back into ticks.                            *)
(*   - an optional field (lastDetected?) that is undefined is <<>>.        *)
(*   - a JS array is a sequence; a JS Map is the sequence of its entries   *)
(*     in insertion order.                                                 *)
(***************************************************************************)
EXTENDS Integers, Sequences, FiniteSets, TLC

VARIABLES
    registry,          \* the DefectRegistryItem[] held by the session
    defectIdCounter,   \* module-level counter of generateDefectId
    clock,             \* the system clock, in ticks
    leakageStatus,     \* the LeakageDetection passed to the last reconcile call
    currentTimestamp,  \* local of the last reconcile call (ISO string)
    currentDate,       \* local of the last reconcile call ('YYYY-MM-DD')
    issuedIds,         \* ids returned by generateDefectId so far, in order
    truncated,         \* entries cut off by the slice of the last reconcile call
    retiredIds,        \* ids of all entries cut off by a slice so far
    calls,             \* number of reconcile calls so far
    callerRegistry,    \* the array passed to the last reconcile call, as it is after the call
    generated,         \* <<s>> once generateLeakageStatus has returned s, else <<>>
    classified,        \* <<[defectType, riskInfo]>> once getRiskLevel has been called
    page,              \* the page component that is mounted: "overview" or "report"
    pathname,          \* the route the router shows
    isAuthenticated,   \* authState.isAuthenticated as the page's closures see it
    intervalAuth,      \* authState.isAuthenticated in the closure the setInterval callback runs
    isLoading,         \* page state
    error,             \* page state: <<>> for null, else <<message>>
    pageLeakageStatus, \* OverviewPage state leakageStatus: <<>> for null, else <<s>>
    controlSystemStats, \* OverviewPage state
    droneStats,        \* OverviewPage state
    defectRegistry,    \* ReportPage state
    isEmpty,           \* ReportPage state
    autoRefresh,       \* ReportPage state
    toast,             \* ReportPage state: <<>> for null, else <<type>>
    toastTimers,       \* pending setTimeout(() => setToast(null)) callbacks
    effectTimer,       \* TRUE while the mount effect's setTimeout is pending
    inFlight,          \* refresh calls that await their response
    outstanding,       \* the numbers of the refresh calls that await their response
    shownRequest,      \* the number of the refresh call whose result the page state holds, 0 for none
    statusInFlight,    \* handleStatusChange calls that await their response
    refreshes,         \* refresh triggers so far
    statusChanges,     \* handleStatusChange calls so far
    lastStep           \* what the last step of the page did

registryVars == <<registry, defectIdCounter, clock, leakageStatus, currentTimestamp,
                  currentDate, issuedIds, truncated, retiredIds, calls, callerRegistry>>

functionVars == <<generated, classified>>

pageVars == <<page, pathname, isAuthenticated, intervalAuth, isLoading, error, pageLeakageStatus,
              controlSystemStats, droneStats, defectRegistry, isEmpty, autoRefresh,
              toast, toastTimers, effectTimer, inFlight, outstanding, shownRequest,
              statusInFlight, refreshes, statusChanges, lastStep>>

vars == <<registryVars, functionVars, pageVars>>

----------------------------------------------------------------------------
(* Bounds of the model *)

TicksPerDay == 2      \* clock resolution: ticks in one UTC day
StartDay == 360       \* day on which the session starts (after every seed date)
MaxElapsed == 1       \* most ticks that pass between the two clock reads of a call
MaxDetections == 2    \* most detections one subsystem reports in a snapshot
MaxCalls == 2         \* most reconcile calls in a session
MaxRefreshes == 3     \* most refresh triggers in a page session
MaxStatusChanges == 2 \* most handleStatusChange calls in a page session

(* Program constants *)

MAX_DEFECT_REGISTRY_SIZE == 15
InitialDefectIdCounter == 100

----------------------------------------------------------------------------
(* Dates *)

\* new Date(t).toISOString()
ToISOString(t) == <<t \div TicksPerDay, t % TicksPerDay>>

\* isoString.split('T')[0]
DatePart(iso) == <<iso[1]>>

\* new Date(s).getTime(), for an ISO timestamp or a 'YYYY-MM-DD' date string
GetTime(s) == IF Len(s) = 2 THEN s[1] * TicksPerDay + s[2] ELSE s[1] * TicksPerDay

Min(a, b) == IF a < b THEN a ELSE b

----------------------------------------------------------------------------
(* Risk classification *)

RiskInfo(level, label, icon, color, action) ==
    [level |-> level, label |-> label, icon |-> icon, color |-> color, action |-> action]

\* riskMap is an object literal, so riskMap[defectType] also finds the
\* properties it inherits from Object.prototype
ObjectPrototypeKeys ==
    { "constructor", "__proto__", "hasOwnProperty", "isPrototypeOf", "propertyIsEnumerable",
      "toLocaleString", "toString", "valueOf",
      "__defineGetter__", "__defineSetter__", "__lookupGetter__", "__lookupSetter__" }

\* the inherited value (a function, or Object.prototype itself) is truthy and
\* is returned as it is: it has none of the five fields
InheritedValue ==
    [level |-> "undefined", label |-> "undefined", icon |-> "undefined",
     color |-> "undefined", action |-> "undefined"]

getRiskLevel(defectType) ==
    CASE defectType = "Major/Sudden Leak" ->
            RiskInfo("critical", "Critical", "red", "#ff4757", "Immediate shutdown & emergency response")
      [] defectType = "Mechanical Damage" ->
            RiskInfo("critical", "Critical", "red", "#ff4757", "Immediate preventive action")
      [] defectType = "Minor/Gradual Leak" ->
            RiskInfo("warning", "Medium", "orange", "#ffa502", "Enhanced monitoring, repair planning")
      [] defectType = "Poor Pipe Support" ->
            RiskInfo("warning", "Medium", "orange", "#ffa502", "Structural intervention")
      [] defectType = "Corrosion & Erosion" ->
            RiskInfo("low", "Low", "green", "#1dd1a1", "Scheduled maintenance")
      [] defectType = "Insulation/Coating Failure" ->
            RiskInfo("low", "Low", "green", "#1dd1a1", "Preventive maintenance")
      [] defectType \in ObjectPrototypeKeys -> InheritedValue
      [] OTHER ->
            RiskInfo("warning", "Unknown", "warning-sign", "#ffa502", "Assessment required")

----------------------------------------------------------------------------
(* Registry items and the static registry *)

Item(id, defectType, location, riskLevel, riskLabel, riskIcon, day, status, controlSystemSign, controlSystemSource, droneSign, droneSource, aiConfidence) ==
    [id |-> id, defectType |-> defectType, location |-> location,
     riskLevel |-> riskLevel, riskLabel |-> riskLabel, riskIcon |-> riskIcon,
     detectedDate |-> <<day>>, lastDetected |-> <<>>, status |-> status,
     controlSystemSign |-> controlSystemSign, controlSystemSource |-> controlSystemSource,
     droneSign |-> droneSign, droneSource |-> droneSource, aiConfidence |-> aiConfidence]

\* detectedDate values are days since 2023-12-01 (2024-11-15 is day 350, ...)
getStaticDefectRegistry ==
    << Item("DEF-001", "Major/Sudden Leak", "Section A-B", "critical", "Critical", "red", 350, "resolved",
            "High pressure drop", "PT", "Direct visual sighting of spill", "Visible spectrum camera", 92),
       Item("DEF-002", "Major/Sudden Leak", "Main Pipeline KM 12.5", "critical", "Critical", "red", 326, "resolved",
            "Imbalance mass flow", "FT", "Detection of gas cloud", "Spectroscopic sensor", 89),
       Item("DEF-003", "Mechanical Damage", "Section B-C", "critical", "Critical", "red", 292, "resolved",
            "N/A", "N/A", "Clear identification of damage: Dents, cracks", "Visible spectrum camera", 87),
       Item("DEF-004", "Mechanical Damage", "Branch Line", "critical", "Critical", "red", 248, "resolved",
            "N/A", "N/A", "Detection of unauthorized activities (excavation, construction)", "Visible spectrum camera", 85),
       Item("DEF-005", "Minor/Gradual Leak", "Section C-D", "warning", "Medium", "orange", 224, "resolved",
            "Small, persistent deviation in mass balance", "FT", "Gradual discoloration", "Visible spectrum camera", 91),
       Item("DEF-006", "Minor/Gradual Leak", "Main Pipeline KM 18.3", "warning", "Medium", "orange", 210, "resolved",
            "Slow pressure decline", "PT", "Consistently elevated gas concentration at a specific point", "Spectroscopic sensor", 88),
       Item("DEF-007", "Poor Pipe Support", "Station Area", "warning", "Medium", "orange", 165, "resolved",
            "Unusual vibrations", "Seismometer", "Visual identification of loose, shifted, or broken pipe supports", "Visible spectrum camera", 86),
       Item("DEF-008", "Poor Pipe Support", "Section A-B", "warning", "Medium", "orange", 141, "resolved",
            "Unusual vibrations", "Seismometer", "Identification of soil erosion or subsidence under the pipe", "Visible spectrum camera", 84),
       Item("DEF-009", "Corrosion & Erosion", "Section B-C", "low", "Low", "green", 98, "resolved",
            "Decrease in pressure", "PT", "Visual signs of rust, coating damage, or corrosion on exposed pipe", "Visible spectrum camera", 90),
       Item("DEF-010", "Corrosion & Erosion", "Main Pipeline KM 12.5", "low", "Low", "green", 76, "resolved",
            "Decrease in pressure", "PT", "Visual signs of rust, coating damage, or corrosion on exposed pipe", "Visible spectrum camera", 87),
       Item("DEF-011", "Insulation/Coating Failure", "Section C-D", "low", "Low", "green", 52, "resolved",
            "Increased heat loss", "TT", "Detection of insulation failures", "Visible spectrum camera", 89),
       Item("DEF-012", "Insulation/Coating Failure", "Branch Line", "low", "Low", "green", 9, "resolved",
            "Increased heat loss", "TT", "Hot or cold spots along the pipe", "Thermal imaging camera", 85) >>

----------------------------------------------------------------------------
(* Identifier allocation *)

RECURSIVE PadStart(_, _, _)
\* String.prototype.padStart(targetLength, padString) for a one-character pad
PadStart(str, targetLength, pad) ==
    IF Len(str) >= targetLength THEN str ELSE PadStart(pad \o str, targetLength, pad)

\* generateDefectId without the increment
generateDefectIdNoIncrement(counter) ==
    [counter |-> counter,
     id      |-> "DEF-" \o PadStart(ToString(counter + 1), 3, "0")]

\* defectIdCounter++ ; return `DEF-${String(defectIdCounter).padStart(3, '0')}`
generateDefectId(counter) ==
    [counter |-> counter + 1,
     id      |-> "DEF-" \o PadStart(ToString(counter + 1), 3, "0")]

----------------------------------------------------------------------------
(* Snapshots *)

Detection(defectType, sign, source, location) ==
    [defectType |-> defectType, sign |-> sign, source |-> source, location |-> location]

LeakageDetection(control, drone) ==
    [controlSystem |-> [status |-> IF Len(control) > 0 THEN "detected" ELSE "ok",
                        detections |-> control],
     drone         |-> [status |-> IF Len(drone) > 0 THEN "detected" ELSE "ok",
                        detections |-> drone],
     totalLeakages |-> IF Len(control) > Len(drone) THEN Len(control) ELSE Len(drone)]

----------------------------------------------------------------------------
(* updateDefectRegistryWithDetections *)

\* const key = `${detection.location}-${detection.defectType}`
Key(detection) == detection.location \o "-" \o detection.defectType

\* index of the entry of the Map with this key, 0 when the Map has none
MapIndex(map, key) ==
    IF \E i \in 1..Len(map) : map[i].key = key
    THEN CHOOSE i \in 1..Len(map) : map[i].key = key
    ELSE 0

\* if (!map.has(key)) map.set(key, {}) ; map.get(key)![side] = detection
MapPut(map, side, detection) ==
    LET key     == Key(detection)
        withKey == IF MapIndex(map, key) = 0
                   THEN Append(map, [key |-> key, controlSystem |-> <<>>, drone |-> <<>>])
                   ELSE map
        i       == MapIndex(withKey, key)
    IN  IF side = "controlSystem"
        THEN [withKey EXCEPT ![i].controlSystem = <<detection>>]
        ELSE [withKey EXCEPT ![i].drone = <<detection>>]

RECURSIVE AddDetections(_, _, _)
\* detections.forEach(detection => ...)
AddDetections(map, side, detections) ==
    IF detections = <<>> THEN map
    ELSE AddDetections(MapPut(map, side, Head(detections)), side, Tail(detections))

\* the Map after both forEach loops
locationDefectMap(status) ==
    AddDetections(AddDetections(<<>>, "controlSystem", status.controlSystem.detections),
                  "drone", status.drone.detections)

\* if (detections.controlSystem && detections.drone)
BothDetected(detections) == detections.controlSystem # <<>> /\ detections.drone # <<>>

\* the status rule without its warning branch
StatusAlwaysPending(level) == "pending"

\* riskInfo.level === 'critical' ? 'pending' : riskInfo.level === 'warning' ? 'progress' : 'pending'
StatusForLevel(level) ==
    IF level = "critical" THEN "pending"
    ELSE IF level = "warning" THEN "progress" ELSE "pending"

\* Math.min(99, 85 + Math.floor(Math.random() * 10)), given the floored draw
Confidence(draw) == Min(99, 85 + draw)

\* findIndex with the two fields compared crosswise: it never matches
findIndexSwapped(reg, location, defectType) ==
    IF \E i \in 1..Len(reg) : reg[i].location = defectType /\ reg[i].defectType = location
    THEN CHOOSE i \in 1..Len(reg) : reg[i].location = defectType /\ reg[i].defectType = location
    ELSE 0

\* updatedRegistry.findIndex(d => d.location === location && d.defectType === defectType),
\* 0 standing for -1
findIndex(reg, location, defectType) ==
    IF \E i \in 1..Len(reg) : reg[i].location = location /\ reg[i].defectType = defectType
    THEN CHOOSE i \in 1..Len(reg) :
            /\ reg[i].location = location /\ reg[i].defectType = defectType
            /\ \A j \in 1..(i - 1) : ~(reg[j].location = location /\ reg[j].defectType = defectType)
    ELSE 0

\* the object pushed for a pair the registry does not hold
NewDefect(id, control, drone, timestamp, date, draw) ==
    LET riskInfo == getRiskLevel(control.defectType)
    IN  [id |-> id, defectType |-> control.defectType, location |-> control.location,
         riskLevel |-> riskInfo.level, riskLabel |-> riskInfo.label, riskIcon |-> riskInfo.icon,
         detectedDate |-> date, lastDetected |-> timestamp,
         status |-> StatusForLevel(riskInfo.level),
         controlSystemSign |-> control.sign, controlSystemSource |-> control.source,
         droneSign |-> drone.sign, droneSource |-> drone.source,
         aiConfidence |-> Confidence(draw)]

\* the update written as the spec describes it: detectedDate is left alone
UpdatedDefectKeepingDate(old, control, drone, timestamp, date, draw) ==
    [old EXCEPT !.lastDetected = timestamp,
                !.status = StatusForLevel(getRiskLevel(control.defectType).level),
                !.controlSystemSign = control.sign,
                !.controlSystemSource = control.source,
                !.droneSign = drone.sign,
                !.droneSource = drone.source,
                !.aiConfidence = Confidence(draw)]

\* the update without the spread of the old entry: the id is lost
UpdatedDefectNoSpread(old, control, drone, timestamp, date, draw) ==
    NewDefect("undefined", control, drone, timestamp, date, draw)

\* the update with the two date fields mixed up: lastDetected takes the old detectedDate
UpdatedDefectOldDate(old, control, drone, timestamp, date, draw) ==
    [old EXCEPT !.detectedDate = date,
                !.lastDetected = old.detectedDate,
                !.status = StatusForLevel(getRiskLevel(control.defectType).level),
                !.controlSystemSign = control.sign,
                !.controlSystemSource = control.source,
                !.droneSign = drone.sign,
                !.droneSource = drone.source,
                !.aiConfidence = Confidence(draw)]

\* the object written over an existing entry
UpdatedDefect(old, control, drone, timestamp, date, draw) ==
    [old EXCEPT !.detectedDate = date,
                !.lastDetected = timestamp,
                !.status = StatusForLevel(getRiskLevel(control.defectType).level),
                !.controlSystemSign = control.sign,
                !.controlSystemSource = control.source,
                !.droneSign = drone.sign,
                !.droneSource = drone.source,
                !.aiConfidence = Confidence(draw)]

\* one iteration of locationDefectMap.forEach on the running state
\* st = [registry, counter, issued, draws]
ProcessEntry(st, detections, timestamp, date) ==
    IF ~BothDetected(detections) THEN st
    ELSE LET control == detections.controlSystem[1]
             drone   == detections.drone[1]
             i       == findIndex(st.registry, control.location, control.defectType)
             draw    == Head(st.draws)
         IN  IF i # 0
             THEN [st EXCEPT !.registry[i] = UpdatedDefect(st.registry[i], control, drone, timestamp, date, draw),
                             !.draws = Tail(st.draws)]
             ELSE LET g == generateDefectId(st.counter)
                  IN  [st EXCEPT !.registry = Append(st.registry, NewDefect(g.id, control, drone, timestamp, date, draw)),
                                 !.counter = g.counter,
                                 !.issued = Append(st.issued, g.id),
                                 !.draws = Tail(st.draws)]

RECURSIVE ProcessDetections(_, _, _, _)
ProcessDetections(st, map, timestamp, date) ==
    IF map = <<>> THEN st
    ELSE ProcessDetections(ProcessEntry(st, Head(map), timestamp, date), Tail(map), timestamp, date)

\* the comparator with the timestamps subtracted the other way round
CompareAscending(a, b) ==
    IF a.lastDetected # <<>> /\ b.lastDetected # <<>>
    THEN GetTime(a.lastDetected) - GetTime(b.lastDetected)
    ELSE IF a.lastDetected # <<>> /\ b.lastDetected = <<>> THEN -1
    ELSE IF a.lastDetected = <<>> /\ b.lastDetected # <<>> THEN 1
    ELSE GetTime(b.detectedDate) - GetTime(a.detectedDate)

\* the comparator handed to updatedRegistry.sort
Compare(a, b) ==
    IF a.lastDetected # <<>> /\ b.lastDetected # <<>>
    THEN GetTime(b.lastDetected) - GetTime(a.lastDetected)
    ELSE IF a.lastDetected # <<>> /\ b.lastDetected = <<>> THEN -1
    ELSE IF a.lastDetected = <<>> /\ b.lastDetected # <<>> THEN 1
    ELSE GetTime(b.detectedDate) - GetTime(a.detectedDate)

RECURSIVE InsertSorted(_, _)
\* x placed behind every element that does not compare greater than it
InsertSorted(sorted, x) ==
    IF sorted = <<>> THEN <<x>>
    ELSE IF Compare(sorted[Len(sorted)], x) > 0
         THEN Append(InsertSorted(SubSeq(sorted, 1, Len(sorted) - 1), x), sorted[Len(sorted)])
         ELSE Append(sorted, x)

RECURSIVE SortFrom(_, _)
SortFrom(sorted, rest) ==
    IF rest = <<>> THEN sorted ELSE SortFrom(InsertSorted(sorted, Head(rest)), Tail(rest))

\* Array.prototype.sort with the comparator above (a stable sort)
SortRegistry(reg) == SortFrom(<<>>, reg)

\* the slice keeping the last MAX entries instead of the first
SliceRegistryKeepLast(reg) ==
    IF Len(reg) > MAX_DEFECT_REGISTRY_SIZE
    THEN SubSeq(reg, Len(reg) - MAX_DEFECT_REGISTRY_SIZE + 1, Len(reg))
    ELSE reg

\* the slice keeping one entry too many
SliceRegistryOffByOne(reg) ==
    IF Len(reg) > MAX_DEFECT_REGISTRY_SIZE THEN SubSeq(reg, 1, MAX_DEFECT_REGISTRY_SIZE + 1) ELSE reg

\* length > MAX ? slice(0, MAX) : the array itself
SliceRegistry(reg) ==
    IF Len(reg) > MAX_DEFECT_REGISTRY_SIZE THEN SubSeq(reg, 1, MAX_DEFECT_REGISTRY_SIZE) ELSE reg

\* what slice(0, MAX) leaves behind
SlicedOff(reg) ==
    IF Len(reg) > MAX_DEFECT_REGISTRY_SIZE THEN SubSeq(reg, MAX_DEFECT_REGISTRY_SIZE + 1, Len(reg)) ELSE <<>>

\* number of Map entries that both subsystems reported: the number of Math.random() calls
DrawsNeeded(status) ==
    Cardinality({i \in 1..Len(locationDefectMap(status)) : BothDetected(locationDefectMap(status)[i])})

\* the array without the copy: updatedRegistry is currentRegistry itself
CallerArrayAliased(currentRegistry, updatedRegistry) == updatedRegistry

\* const updatedRegistry = [...currentRegistry]: the slot writes, the push and
\* the sort act on the copy, and every written slot gets a new object, so the
\* array the caller passed holds after the call what it held before
CallerArray(currentRegistry, updatedRegistry) == currentRegistry

\* the whole function; draws are the floored Math.random() * 10 results in call order
updateDefectRegistryWithDetections(currentRegistry, status, timestamp, date, counter, draws) ==
    LET processed == ProcessDetections([registry |-> currentRegistry, counter |-> counter,
                                        issued |-> <<>>, draws |-> draws],
                                       locationDefectMap(status), timestamp, date)
        sorted    == SortRegistry(processed.registry)
    IN  [registry |-> SliceRegistry(sorted),
         argument |-> CallerArray(currentRegistry, sorted),
         cut      |-> SlicedOff(sorted),
         counter  |-> processed.counter,
         issued   |-> processed.issued]

\* the same with the dates subtracted the other way round: oldest first
getInitialDefectRegistryOldestFirst ==
    LET sorted == SortRegistry(getStaticDefectRegistry)
    IN  SliceRegistry([i \in 1..Len(sorted) |-> sorted[Len(sorted) + 1 - i]])

\* allDefects.sort(by detectedDate, most recent first).slice(0, MAX)
getInitialDefectRegistry == SliceRegistry(SortRegistry(getStaticDefectRegistry))

----------------------------------------------------------------------------
(* The synthetic snapshot generator *)

Signature(sign, source) == [sign |-> sign, source |-> source]

defectScenarios ==
    << [type |-> "Major/Sudden Leak",
        controlSystem |-> << Signature("High pressure drop", "PT"),
                             Signature("Imbalance mass flow", "FT") >>,
        drone |-> << Signature("Direct visual sighting of spill", "Visible spectrum camera"),
                     Signature("Detection of gas cloud", "Spectroscopic sensor"),
                     Signature("Distinct thermal anomaly on the ground", "Thermal imaging camera") >>],
       [type |-> "Minor/Gradual Leak",
        controlSystem |-> << Signature("Small, persistent deviation in mass balance", "FT"),
                             Signature("Slow pressure decline", "PT") >>,
        drone |-> << Signature("Gradual discoloration", "Visible spectrum camera"),
                     Signature("Consistently elevated gas concentration at a specific point", "Spectroscopic sensor"),
                     Signature("Long-term changes in soil temperature", "Thermal imaging camera") >>],
       [type |-> "Corrosion & Erosion",
        controlSystem |-> << Signature("Decrease in pressure", "PT") >>,
        drone |-> << Signature("Visual signs of rust, coating damage, or corrosion on exposed pipe", "Visible spectrum camera") >>],
       [type |-> "Mechanical Damage",
        controlSystem |-> << >>,
        drone |-> << Signature("Clear identification of damage: Dents, cracks", "Visible spectrum camera"),
                     Signature("Detection of unauthorized activities (excavation, construction)", "Visible spectrum camera") >>],
       [type |-> "Insulation/Coating Failure",
        controlSystem |-> << Signature("Increased heat loss", "TT") >>,
        drone |-> << Signature("Detection of insulation failures", "Visible spectrum camera"),
                     Signature("Hot or cold spots along the pipe", "Thermal imaging camera") >>],
       [type |-> "Poor Pipe Support",
        controlSystem |-> << Signature("Unusual vibrations", "Seismometer") >>,
        drone |-> << Signature("Visual identification of loose, shifted, or broken pipe supports", "Visible spectrum camera"),
                     Signature("Identification of soil erosion or subsidence under the pipe", "Visible spectrum camera") >>] >>

locations ==
    << "Section A-B", "Section B-C", "Section C-D", "Branch Line", "Station Area",
       "Main Pipeline KM 12.5", "Main Pipeline KM 18.3" >>

\* a value r of Math.random(), 0 <= r < 1, is the integer 1000 * r
RandomUnit == 1000

\* Math.floor(r * n)
FloorTimes(r, n) == (r * n) \div RandomUnit

\* arr[Math.floor(Math.random() * arr.length)], 1-based
Pick(arr, r) == arr[FloorTimes(r, Len(arr)) + 1]

\* Math.random() > 0.2
hasIssue(r) == r * 10 > 2 * RandomUnit

\* Math.floor(Math.random() * 3) + 1
numLeakages(r) == FloorTimes(r, 3) + 1

\* the filter with || in place of &&
HasEitherSystem(d) == Len(d.controlSystem) > 0 \/ Len(d.drone) > 0

\* d => d.controlSystem.length > 0 && d.drone.length > 0
HasBothSystems(d) == Len(d.controlSystem) > 0 /\ Len(d.drone) > 0

defectsWithBothSystems == SelectSeq(defectScenarios, HasBothSystems)

\* the detection one loop iteration pushes to the control-system array
\* draw = [defect, location, control, drone], in the order the code draws
ControlPush(draw) ==
    LET selectedDefect == Pick(defectsWithBothSystems, draw.defect)
        signature      == Pick(selectedDefect.controlSystem, draw.control)
    IN  Detection(selectedDefect.type, signature.sign, signature.source, Pick(locations, draw.location))

\* a drone push that takes its location from another draw
DronePushOtherLocation(draw) ==
    LET selectedDefect == Pick(defectsWithBothSystems, draw.defect)
        signature      == Pick(selectedDefect.drone, draw.drone)
    IN  Detection(selectedDefect.type, signature.sign, signature.source, Pick(locations, draw.drone))

\* the detection the same iteration pushes to the drone array
DronePush(draw) ==
    LET selectedDefect == Pick(defectsWithBothSystems, draw.defect)
        signature      == Pick(selectedDefect.drone, draw.drone)
    IN  Detection(selectedDefect.type, signature.sign, signature.source, Pick(locations, draw.location))

\* issue, count: the first two draws; draws: one record per loop iteration
generateLeakageStatus(issue, count, draws) ==
    IF ~hasIssue(issue)
    THEN [controlSystem |-> [status |-> "ok", detections |-> <<>>],
          drone |-> [status |-> "ok", detections |-> <<>>],
          totalLeakages |-> 0]
    ELSE LET n == numLeakages(count)
             controlSystemDetections == [i \in 1..n |-> ControlPush(draws[i])]
             droneDetections == [i \in 1..n |-> DronePush(draws[i])]
         IN  [controlSystem |-> [status |-> IF Len(controlSystemDetections) > 0 THEN "detected" ELSE "ok",
                                 detections |-> controlSystemDetections],
              drone |-> [status |-> IF Len(droneDetections) > 0 THEN "detected" ELSE "ok",
                         detections |-> droneDetections],
              totalLeakages |-> n]

----------------------------------------------------------------------------
(* Inputs *)

\* a registry loaded at page mount from a backend that holds MAX events: the
\* static entries and three older ones, two of them of the same day
loadedDefectRegistry ==
    getStaticDefectRegistry \o
    << Item("DEF-013", "Poor Pipe Support", "Section B-C", "warning", "Medium", "orange", 5, "resolved",
            "Unusual vibrations", "Seismometer", "Visual identification of loose, shifted, or broken pipe supports", "Visible spectrum camera", 88),
       Item("DEF-014", "Corrosion & Erosion", "Station Area", "low", "Low", "green", 5, "resolved",
            "Decrease in pressure", "PT", "Visual signs of rust, coating damage, or corrosion on exposed pipe", "Visible spectrum camera", 90),
       Item("DEF-015", "Mechanical Damage", "Main Pipeline KM 18.3", "critical", "Critical", "red", 2, "resolved",
            "N/A", "N/A", "Clear identification of damage: Dents, cracks", "Visible spectrum camera", 86) >>

\* a registry of one entry as convertDetectionEvent builds it from a backend
\* event: riskLevel is the event's risk_level (here 'warning'), riskLabel and
\* riskIcon are those of getRiskLevel(event.defect_type)
convertedDefectRegistry ==
    << [Item("DEF-050", "Major/Sudden Leak", "Section A-B", "warning", "Critical", "red", 359, "progress",
             "High pressure drop", "PT", "Detection of gas cloud", "Spectroscopic sensor", 92)
        EXCEPT !.lastDetected = <<360, 0>>] >>

\* registries a session starts from: none yet, the static one, a full one,
\* one converted from backend events
InitialRegistries == { <<>>, getInitialDefectRegistry, loadedDefectRegistry, convertedDefectRegistry }

\* detections the control system may report: two signs of one pair, a pair
\* whose key reads like theirs, and a pair of its own
ControlDetections ==
    { Detection("Major/Sudden Leak", "Imbalance mass flow", "FT", "Section A-B"),
      Detection("Major/Sudden Leak", "High pressure drop", "PT", "Section A-B"),
      Detection("B-Major/Sudden Leak", "High pressure drop", "PT", "Section A"),
      Detection("Corrosion & Erosion", "Decrease in pressure", "PT", "Section C-D") }

\* detections the drone may report
DroneDetections ==
    { Detection("Major/Sudden Leak", "Detection of gas cloud", "Spectroscopic sensor", "Section A-B"),
      Detection("Corrosion & Erosion", "Visual signs of rust, coating damage, or corrosion on exposed pipe",
                "Visible spectrum camera", "Section C-D") }

\* the detection arrays of at most MaxDetections different elements of a pool
DetectionLists(pool) ==
    UNION { { l \in [1..n -> pool] : \A i, j \in 1..n : i # j => l[i] # l[j] } : n \in 0..MaxDetections }

\* results of Math.floor(Math.random() * 10) the model draws: both ends of 0..9
RandomFloors == {0, 9}

\* values of Math.random() (in thousandths) the generator draws in the model:
\* both sides of the 0.2 threshold, and the first, a middle and the last index
IssueDraws == {0, 200, 201, 999}
RandomDraws == {0, 500, 999}
EdgeDraws == {0, 999}

\* the four draws of one loop iteration of the generator
LeakageDraws ==
    [defect : RandomDraws, location : EdgeDraws, control : EdgeDraws, drone : EdgeDraws]

\* strings getRiskLevel is called with: the six known types, near misses,
\* unknown types, and names every JS object inherits
DefectTypeInputs ==
    { "Major/Sudden Leak", "Mechanical Damage", "Minor/Gradual Leak", "Poor Pipe Support",
      "Corrosion & Erosion", "Insulation/Coating Failure",
      "", "major/sudden leak", "Major/Sudden Leak ", "B-Major/Sudden Leak", "Weld Defect",
      "constructor", "toString", "__proto__" }

----------------------------------------------------------------------------
(* The pages: DetectionService calls and the conversions of their results  *)
(*                                                                         *)
(* An error message is the sequence of its words, and includes(w) looks    *)
(* for the word w in it.  What a fetch call ends with is an outcome: the   *)
(* promise is rejected (no response at all), or a response arrives with    *)
(* its status code, its statusText and its body, <<>> for a body that does *)
(* not parse as JSON.                                                      *)

Rejected == [kind |-> "rejected", status |-> 0, statusText |-> <<>>, body |-> <<>>]

Response(status, statusText, body) ==
    [kind |-> "response", status |-> status, statusText |-> statusText, body |-> body]

\* response.ok
ResponseOk(status) == status \in 200..299

\* what an async service call ends with: a thrown Error or a returned value
Throw(message) == [threw |-> TRUE, message |-> message, value |-> <<>>]
Return(value) == [threw |-> FALSE, message |-> <<>>, value |-> <<value>>]

\* the message of the TypeError of a rejected fetch, of the SyntaxError of response.json()
FetchTypeError == << "Failed", "to", "fetch" >>
JsonSyntaxError == << "Unexpected", "token", "<", "in", "JSON", "at", "position", "0" >>

\* the common shape of the service calls: fetch, check response.ok, parse
ServiceCall(outcome, failedTo) ==
    IF outcome.kind = "rejected" THEN Throw(FetchTypeError)
    ELSE IF ~ResponseOk(outcome.status) THEN Throw(failedTo \o outcome.statusText)
    ELSE IF outcome.body = <<>> THEN Throw(JsonSyntaxError)
    ELSE Return(outcome.body[1])

\* `Failed to fetch detection events: ${response.statusText}`
\* and `return data.events`
getDetectionEvents(outcome) ==
    LET data == ServiceCall(outcome, << "Failed", "to", "fetch", "detection", "events:" >>)
    IN  IF data.threw THEN data ELSE Return(data.value[1].events)

\* `Failed to fetch overview stats: ${response.statusText}`
getOverviewStats(outcome) ==
    ServiceCall(outcome, << "Failed", "to", "fetch", "overview", "stats:" >>)

\* `Failed to update detection status: ${response.statusText}`
updateDetectionStatus(outcome) ==
    ServiceCall(outcome, << "Failed", "to", "update", "detection", "status:" >>)

\* errorMessage.includes(word)
Includes(errorMessage, word) == \E i \in 1..Len(errorMessage) : errorMessage[i] = word

\* errorMessage.includes('Unauthorized') || errorMessage.includes('401')
IsUnauthorized(errorMessage) ==
    Includes(errorMessage, "Unauthorized") \/ Includes(errorMessage, "401")

DetectionEvent(id, defect_type, location, risk_level, detected_date, last_detected, status, control_system_sign, control_system_source, drone_sign, drone_source, ai_confidence) ==
    [id |-> id, defect_type |-> defect_type, location |-> location, risk_level |-> risk_level,
     detected_date |-> detected_date, last_detected |-> last_detected, status |-> status,
     control_system_sign |-> control_system_sign, control_system_source |-> control_system_source,
     drone_sign |-> drone_sign, drone_source |-> drone_source, ai_confidence |-> ai_confidence]

convertDetectionEvent(event) ==
    LET riskInfo == getRiskLevel(event.defect_type)
    IN  [id |-> event.id, defectType |-> event.defect_type, location |-> event.location,
         riskLevel |-> event.risk_level, riskLabel |-> riskInfo.label, riskIcon |-> riskInfo.icon,
         detectedDate |-> event.detected_date, lastDetected |-> event.last_detected,
         status |-> event.status,
         controlSystemSign |-> event.control_system_sign,
         controlSystemSource |-> event.control_system_source,
         droneSign |-> event.drone_sign, droneSource |-> event.drone_source,
         aiConfidence |-> event.ai_confidence]

\* events.map(convertDetectionEvent)
ConvertEvents(events) == [i \in 1..Len(events) |-> convertDetectionEvent(events[i])]

BackendDetection(defect_type, sign, source, location) ==
    [defect_type |-> defect_type, sign |-> sign, source |-> source, location |-> location]

\* the conversion that leaves the drone's detections out
convertLeakageStatusNoDroneList(backendStatus) ==
    LET Convert(d) == [defectType |-> d.defect_type, sign |-> d.sign,
                       source |-> d.source, location |-> d.location]
        control == backendStatus.control_system.detections
    IN  [controlSystem |-> [status |-> backendStatus.control_system.status,
                            detections |-> [i \in 1..Len(control) |-> Convert(control[i])]],
         drone |-> [status |-> backendStatus.drone.status, detections |-> <<>>],
         totalLeakages |-> backendStatus.total_leakages]

convertLeakageStatus(backendStatus) ==
    LET Convert(d) == [defectType |-> d.defect_type, sign |-> d.sign,
                       source |-> d.source, location |-> d.location]
        control == backendStatus.control_system.detections
        drone   == backendStatus.drone.detections
    IN  [controlSystem |-> [status |-> backendStatus.control_system.status,
                            detections |-> [i \in 1..Len(control) |-> Convert(control[i])]],
         drone |-> [status |-> backendStatus.drone.status,
                    detections |-> [i \in 1..Len(drone) |-> Convert(drone[i])]],
         totalLeakages |-> backendStatus.total_leakages]

\* the leakage status the overview page falls back to when a fetch fails
DefaultEmptyStatus ==
    [controlSystem |-> [status |-> "ok", detections |-> <<>>],
     drone |-> [status |-> "ok", detections |-> <<>>],
     totalLeakages |-> 0]

\* useState defaults of the overview page
DefaultControlSystemStats == [total |-> 145, critical |-> 0, warning |-> 15, normal |-> 130]
DefaultDroneStats == [total |-> 2847, videos |-> 1234, images |-> 1613]

\* the registry of a catch block that sets nothing
FailedRegistryKept(prevRegistry) == prevRegistry

\* setDefectRegistry([]) of the catch block of fetchDetectionEvents
FailedRegistry(prevRegistry) == <<>>

\* the map that writes 'resolved' whatever status was asked
MapStatusResolved(prevRegistry, defectId, newStatus) ==
    [i \in 1..Len(prevRegistry) |->
        IF prevRegistry[i].id = defectId
        THEN [prevRegistry[i] EXCEPT !.status = "resolved"]
        ELSE prevRegistry[i]]

\* the same map without the test of the id
MapStatusOfAll(prevRegistry, defectId, newStatus) ==
    [i \in 1..Len(prevRegistry) |-> [prevRegistry[i] EXCEPT !.status = newStatus]]

\* prevRegistry.map(defect => defect.id === defectId ? { ...defect, status: newStatus } : defect)
MapStatus(prevRegistry, defectId, newStatus) ==
    [i \in 1..Len(prevRegistry) |->
        IF prevRegistry[i].id = defectId
        THEN [prevRegistry[i] EXCEPT !.status = newStatus]
        ELSE prevRegistry[i]]

\* routes
PagePath(p) == IF p = "overview" THEN "/overview" ELSE "/reports"
LoginPath == "/login"

\* what a step of a page is recorded as
Step(op, outcome, message, defectId, newStatus, held) ==
    [op |-> op, status |-> outcome.status, kind |-> outcome.kind, body |-> outcome.body, message |-> message,
     defectId |-> defectId, newStatus |-> newStatus, held |-> held]

NoOutcome == [kind |-> "none", status |-> 0, body |-> <<>>]

\* how a call of a fetch function ends before its await: navigate('/login') or the request
Redirected == [kind |-> "redirected", status |-> 0, body |-> <<>>]
Requested == [kind |-> "requested", status |-> 0, body |-> <<>>]

\* the page variables while no page is mounted
PageIdle ==
    /\ page = "none"
    /\ pathname = "/"
    /\ isAuthenticated = FALSE
    /\ intervalAuth = FALSE
    /\ isLoading = FALSE
    /\ error = <<>>
    /\ pageLeakageStatus = <<>>
    /\ controlSystemStats = DefaultControlSystemStats
    /\ droneStats = DefaultDroneStats
    /\ defectRegistry = <<>>
    /\ isEmpty = FALSE
    /\ autoRefresh = FALSE
    /\ toast = <<>>
    /\ toastTimers = 0
    /\ effectTimer = FALSE
    /\ inFlight = 0
    /\ outstanding = {}
    /\ shownRequest = 0
    /\ statusInFlight = <<>>
    /\ refreshes = 0
    /\ statusChanges = 0
    /\ lastStep = Step("none", NoOutcome, <<>>, "", "", 0)

\* the registry variables while no reconcile session runs
RegistryIdle ==
    /\ registry = <<>>
    /\ defectIdCounter = InitialDefectIdCounter
    /\ clock = StartDay * TicksPerDay
    /\ leakageStatus = LeakageDetection(<<>>, <<>>)
    /\ currentTimestamp = <<>>
    /\ currentDate = <<>>
    /\ issuedIds = <<>>
    /\ truncated = <<>>
    /\ retiredIds = {}
    /\ calls = 0
    /\ callerRegistry = <<>>

\* the function variables while no function has been called
FunctionsIdle ==
    /\ generated = <<>>
    /\ classified = <<>>

----------------------------------------------------------------------------
(* The session *)

Init ==
    /\ registry \in InitialRegistries
    /\ defectIdCounter = InitialDefectIdCounter
    /\ clock = StartDay * TicksPerDay + (TicksPerDay - 1)   \* last tick of the day
    /\ leakageStatus = LeakageDetection(<<>>, <<>>)
    /\ currentTimestamp = <<>>
    /\ currentDate = <<>>
    /\ issuedIds = <<>>
    /\ truncated = <<>>
    /\ retiredIds = {}
    /\ calls = 0
    /\ callerRegistry = <<>>
    /\ FunctionsIdle
    /\ PageIdle

\* one refresh cycle: a snapshot arrives and is merged into the registry.
\* The two new Date() calls read the clock one after the other.
Reconcile ==
    /\ page = "none"                      \* no page component calls the reconciler
    /\ calls < MaxCalls
    /\ \E control \in DetectionLists(ControlDetections),
          drone \in DetectionLists(DroneDetections),
          gap \in 0..MaxElapsed :
         LET status == LeakageDetection(control, drone)
             t1     == clock              \* first new Date()
             t2     == clock + gap        \* second new Date()
         IN  \E draws \in [1..DrawsNeeded(status) -> RandomFloors] :
             \E out \in { updateDefectRegistryWithDetections(
                              registry, status, ToISOString(t1), DatePart(ToISOString(t2)),
                              defectIdCounter, draws) } :
                   /\ registry' = out.registry
                   /\ defectIdCounter' = out.counter
                   /\ clock' = t2
                   /\ leakageStatus' = status
                   /\ currentTimestamp' = ToISOString(t1)
                   /\ currentDate' = DatePart(ToISOString(t2))
                   /\ issuedIds' = issuedIds \o out.issued
                   /\ truncated' = out.cut
                   /\ retiredIds' = retiredIds \cup { out.cut[i].id : i \in 1..Len(out.cut) }
                   /\ calls' = calls + 1
                   /\ callerRegistry' = out.argument
                   /\ UNCHANGED <<functionVars, pageVars>>

Next == Reconcile

Spec == Init /\ [][Next]_vars

----------------------------------------------------------------------------
(* The pure functions, each applied once to inputs of its domain *)

InitFunctions == RegistryIdle /\ FunctionsIdle /\ PageIdle

\* one call of generateLeakageStatus
GenerateLeakageStatus ==
    /\ page = "none"                      \* no page component calls the generator
    /\ generated = <<>>
    /\ \E issue \in IssueDraws, count \in RandomDraws :
          \E draws \in [1..(IF hasIssue(issue) THEN numLeakages(count) ELSE 0) -> LeakageDraws] :
              generated' = << generateLeakageStatus(issue, count, draws) >>
    /\ UNCHANGED <<registryVars, classified, pageVars>>

\* one call of getRiskLevel
ClassifyRisk ==
    /\ page = "none"
    /\ classified = <<>>
    /\ \E defectType \in DefectTypeInputs :
          classified' = << [defectType |-> defectType, riskInfo |-> getRiskLevel(defectType)] >>
    /\ UNCHANGED <<registryVars, generated, pageVars>>

NextFunctions == GenerateLeakageStatus \/ ClassifyRisk

SpecFunctions == InitFunctions /\ [][NextFunctions]_vars

----------------------------------------------------------------------------
(* The pages: inputs *)

Statuses == { "pending", "progress", "resolved" }

\* events the backend holds: the first one pending or resolved there
EventOne(status) ==
    DetectionEvent("1", "Major/Sudden Leak", "Section A-B", "critical", <<359>>, <<360, 0>>, status,
                   "High pressure drop", "PT", "Detection of gas cloud", "Spectroscopic sensor", 92)
EventTwo ==
    DetectionEvent("2", "Poor Pipe Support", "Station Area", "warning", <<358>>, <<358, 1>>, "progress",
                   "Unusual vibrations", "Seismometer",
                   "Visual identification of loose, shifted, or broken pipe supports", "Visible spectrum camera", 88)

EventLists == { <<>>, << EventOne("pending"), EventTwo >>, << EventOne("resolved"), EventTwo >> }

\* failures every request can end with: no response, an unparsable body,
\* 401 with the reason phrase of HTTP/1.1, 401 without one (HTTP/2 has no
\* reason phrase, statusText is ''), and a server error
FailureOutcomes ==
    { Rejected,
      Response(200, << "OK" >>, <<>>),
      Response(401, << "Unauthorized" >>, <<>>),
      Response(401, <<>>, <<>>),
      Response(500, << "Internal", "Server", "Error" >>, <<>>) }

\* GET /events?limit=15
EventsOutcomes ==
    { Response(200, << "OK" >>, << [events |-> l] >>) : l \in EventLists } \cup FailureOutcomes

BackendStatus(control, drone) ==
    [control_system |-> [status |-> IF Len(control) > 0 THEN "detected" ELSE "ok", detections |-> control],
     drone |-> [status |-> IF Len(drone) > 0 THEN "detected" ELSE "ok", detections |-> drone],
     total_leakages |-> Len(control)]

\* GET /overview-stats: nothing detected, or one leak both subsystems report
StatsBodies ==
    { [leakage_status |-> BackendStatus(<<>>, <<>>),
       control_system |-> [total |-> 145, critical |-> 0, warning |-> 15, normal |-> 130],
       drone |-> [total |-> 2847, videos |-> 1234, images |-> 1613]],
      [leakage_status |->
           BackendStatus(<< BackendDetection("Major/Sudden Leak", "High pressure drop", "PT", "Section A-B") >>,
                         << BackendDetection("Major/Sudden Leak", "Detection of gas cloud", "Spectroscopic sensor", "Section A-B") >>),
       control_system |-> [total |-> 146, critical |-> 1, warning |-> 15, normal |-> 130],
       drone |-> [total |-> 2848, videos |-> 1234, images |-> 1614]] }

StatsOutcomes ==
    { Response(200, << "OK" >>, << b >>) : b \in StatsBodies } \cup FailureOutcomes

\* PUT /events/{id}/status
StatusOutcomes ==
    { Response(200, << "OK" >>, << "event" >>) } \cup FailureOutcomes

----------------------------------------------------------------------------
(* The pages: one mounted page component, its timers and its requests *)

InitPage ==
    /\ RegistryIdle
    /\ FunctionsIdle
    /\ page \in { "overview", "report" }
    /\ pathname = PagePath(page)
    /\ isAuthenticated \in BOOLEAN          \* FALSE until AuthProvider has verified a stored token
    /\ intervalAuth = isAuthenticated       \* the interval effect ran in the first render
    /\ isLoading = (page = "overview")      \* useState(true) there, useState(false) in the report
    /\ error = <<>>
    /\ pageLeakageStatus = <<>>
    /\ controlSystemStats = DefaultControlSystemStats
    /\ droneStats = DefaultDroneStats
    /\ defectRegistry = <<>>
    /\ isEmpty = FALSE
    /\ autoRefresh = FALSE
    /\ toast = <<>>
    /\ toastTimers = 0
    /\ effectTimer = TRUE                    \* the mount effect has set its 100 ms timer
    /\ inFlight = 0
    /\ outstanding = {}
    /\ shownRequest = 0
    /\ statusInFlight = <<>>
    /\ refreshes = 0
    /\ statusChanges = 0
    /\ lastStep = Step("none", NoOutcome, <<>>, "", "", 0)

\* the page component is mounted: its timers run and its state can be set
Mounted == pathname = PagePath(page)

overviewState == <<pageLeakageStatus, controlSystemStats, droneStats>>
reportState == <<defectRegistry, isEmpty>>
toastState == <<toast, toastTimers>>
statusState == <<statusInFlight, statusChanges>>

\* fetchOverviewData / fetchDetectionEvents up to the await: the check of
\* authState, then setIsLoading(true), setError(null) and the request
StartRefresh(trigger, authenticated) ==
    /\ refreshes < MaxRefreshes
    /\ refreshes' = refreshes + 1
    /\ IF ~authenticated
       THEN /\ pathname' = LoginPath
            /\ effectTimer' = FALSE
            /\ lastStep' = Step(trigger, Redirected, <<>>, "", "", Len(defectRegistry))
            /\ UNCHANGED <<isLoading, error, inFlight, outstanding>>
       ELSE /\ isLoading' = TRUE
            /\ error' = <<>>
            /\ inFlight' = inFlight + 1
            /\ outstanding' = outstanding \cup { refreshes + 1 }
            /\ effectTimer' = IF trigger = "mountRefresh" THEN FALSE ELSE effectTimer
            /\ lastStep' = Step(trigger, Requested, <<>>, "", "", Len(defectRegistry))
            /\ UNCHANGED pathname
    /\ UNCHANGED <<registryVars, functionVars, page, isAuthenticated, intervalAuth, overviewState,
                   reportState, autoRefresh, toastState, statusState, shownRequest>>

\* the setTimeout of the mount effect fires
\* (the effect runs again whenever authState.isAuthenticated changes, so its
\* callback reads the current value)
EffectTimer == Mounted /\ effectTimer /\ StartRefresh("mountRefresh", isAuthenticated)

\* the setInterval callback fires (in the report only while autoRefresh is on)
\* (its effect has no authState among its dependencies: the callback is the
\* fetch function of the render in which the effect ran)
IntervalTick == Mounted /\ (page = "overview" \/ autoRefresh) /\ StartRefresh("intervalRefresh", intervalAuth)

\* the Refresh Status / Retry button, rendered once the page is past its loading view
handleRefreshStatus ==
    /\ Mounted /\ page = "overview"
    /\ ~(isLoading \/ pageLeakageStatus = <<>>)
    /\ StartRefresh("manualRefresh", isAuthenticated)

\* the auto-refresh checkbox of the report
setAutoRefresh ==
    /\ Mounted /\ page = "report"
    /\ autoRefresh' = ~autoRefresh
    /\ intervalAuth' = IF autoRefresh' THEN isAuthenticated ELSE intervalAuth   \* the effect runs in this render
    /\ lastStep' = Step("autoRefresh", NoOutcome, <<>>, "", "", Len(defectRegistry))
    /\ UNCHANGED <<registryVars, functionVars, page, pathname, isAuthenticated, isLoading, error,
                   overviewState, reportState, toastState, effectTimer, inFlight, outstanding,
                   shownRequest, statusState, refreshes>>

\* fetchOverviewData from the await on: try, catch and finally
fetchOverviewData ==
    /\ page = "overview" /\ inFlight > 0
    /\ inFlight' = inFlight - 1
    /\ \E request \in outstanding, outcome \in StatsOutcomes :
         LET stats == getOverviewStats(outcome)
         IN  /\ outstanding' = outstanding \ { request }
             /\ IF ~Mounted
                THEN /\ lastStep' = Step("dropped", NoOutcome, <<>>, "", "", 0)
                     /\ UNCHANGED <<pathname, isLoading, error, overviewState, effectTimer, shownRequest>>
                ELSE IF ~stats.threw
                THEN /\ pageLeakageStatus' = << convertLeakageStatus(stats.value[1].leakage_status) >>
                     /\ controlSystemStats' = stats.value[1].control_system
                     /\ droneStats' = stats.value[1].drone
                     /\ isLoading' = FALSE
                     /\ shownRequest' = request
                     /\ lastStep' = Step("loaded", outcome, <<>>, "", "", 0)
                     /\ UNCHANGED <<pathname, error, effectTimer>>
                ELSE IF IsUnauthorized(stats.message)
                THEN /\ pathname' = LoginPath
                     /\ effectTimer' = FALSE
                     /\ isLoading' = FALSE
                     /\ lastStep' = Step("unauthorized", outcome, stats.message, "", "", 0)
                     /\ UNCHANGED <<error, overviewState, shownRequest>>
                ELSE /\ error' = << stats.message >>
                     /\ pageLeakageStatus' = << DefaultEmptyStatus >>
                     /\ isLoading' = FALSE
                     /\ shownRequest' = request
                     /\ lastStep' = Step("failed", outcome, stats.message, "", "", 0)
                     /\ UNCHANGED <<pathname, controlSystemStats, droneStats, effectTimer>>
    /\ UNCHANGED <<registryVars, functionVars, page, isAuthenticated, intervalAuth, reportState,
                   autoRefresh, toastState, statusState, refreshes>>

\* fetchDetectionEvents from the await on: try, catch and finally
fetchDetectionEvents ==
    /\ page = "report" /\ inFlight > 0
    /\ inFlight' = inFlight - 1
    /\ \E request \in outstanding, outcome \in EventsOutcomes :
         LET events == getDetectionEvents(outcome)
             held   == Len(defectRegistry)
         IN  /\ outstanding' = outstanding \ { request }
             /\ IF ~Mounted
                THEN /\ lastStep' = Step("dropped", NoOutcome, <<>>, "", "", 0)
                     /\ UNCHANGED <<pathname, isLoading, error, reportState, effectTimer, shownRequest>>
                ELSE IF ~events.threw
                THEN /\ defectRegistry' = ConvertEvents(events.value[1])
                     /\ isEmpty' = (Len(events.value[1]) = 0)
                     /\ isLoading' = FALSE
                     /\ shownRequest' = request
                     /\ lastStep' = Step("loaded", outcome, <<>>, "", "", held)
                     /\ UNCHANGED <<pathname, error, effectTimer>>
                ELSE IF IsUnauthorized(events.message)
                THEN /\ pathname' = LoginPath
                     /\ effectTimer' = FALSE
                     /\ isLoading' = FALSE
                     /\ lastStep' = Step("unauthorized", outcome, events.message, "", "", held)
                     /\ UNCHANGED <<error, reportState, shownRequest>>
                ELSE /\ error' = << events.message >>
                     /\ defectRegistry' = FailedRegistry(defectRegistry)
                     /\ isEmpty' = TRUE
                     /\ isLoading' = FALSE
                     /\ shownRequest' = request
                     /\ lastStep' = Step("failed", outcome, events.message, "", "", held)
                     /\ UNCHANGED <<pathname, effectTimer>>
    /\ UNCHANGED <<registryVars, functionVars, page, isAuthenticated, intervalAuth, overviewState,
                   autoRefresh, toastState, statusState, refreshes>>

\* handleStatusChange up to the await: the select of a rendered row changes
handleStatusChange ==
    /\ Mounted /\ page = "report"
    /\ statusChanges < MaxStatusChanges
    /\ \E i \in 1..Len(defectRegistry), newStatus \in Statuses :
          /\ statusInFlight' = Append(statusInFlight, [defectId |-> defectRegistry[i].id, newStatus |-> newStatus])
          /\ lastStep' = Step("statusRequested", NoOutcome, <<>>, defectRegistry[i].id, newStatus, Len(defectRegistry))
    /\ statusChanges' = statusChanges + 1
    /\ UNCHANGED <<registryVars, functionVars, page, pathname, isAuthenticated, intervalAuth, isLoading, error,
                   overviewState, reportState, autoRefresh, toastState, effectTimer, inFlight, outstanding, shownRequest, refreshes>>

\* handleStatusChange from the await on: the local update and the toast
handleStatusChangeDone ==
    /\ page = "report"
    /\ \E k \in 1..Len(statusInFlight), outcome \in StatusOutcomes :
         LET call   == statusInFlight[k]
             result == updateDetectionStatus(outcome)
             held   == Len(defectRegistry)
         IN  /\ statusInFlight' = SubSeq(statusInFlight, 1, k - 1) \o SubSeq(statusInFlight, k + 1, Len(statusInFlight))
             /\ IF ~Mounted
                THEN /\ lastStep' = Step("dropped", NoOutcome, <<>>, "", "", 0)
                     /\ UNCHANGED <<defectRegistry, toastState>>
                ELSE IF ~result.threw
                THEN /\ defectRegistry' = MapStatus(defectRegistry, call.defectId, call.newStatus)
                     /\ toast' = << "success" >>
                     /\ toastTimers' = toastTimers + 1
                     /\ lastStep' = Step("statusUpdated", outcome, <<>>, call.defectId, call.newStatus, held)
                ELSE /\ toast' = << "error" >>
                     /\ toastTimers' = toastTimers + 1
                     /\ lastStep' = Step("statusFailed", outcome, result.message, call.defectId, call.newStatus, held)
                     /\ UNCHANGED defectRegistry
    /\ UNCHANGED <<registryVars, functionVars, page, pathname, isAuthenticated, intervalAuth, isLoading, error,
                   overviewState, isEmpty, autoRefresh, effectTimer, inFlight, outstanding, shownRequest, statusChanges, refreshes>>

\* setTimeout(() => setToast(null), ...) fires
ToastTimeout ==
    /\ toastTimers > 0
    /\ toastTimers' = toastTimers - 1
    /\ toast' = IF Mounted THEN <<>> ELSE toast
    /\ lastStep' = Step("toastHidden", NoOutcome, <<>>, "", "", Len(defectRegistry))
    /\ UNCHANGED <<registryVars, functionVars, page, pathname, isAuthenticated, intervalAuth, isLoading, error,
                   overviewState, reportState, autoRefresh, effectTimer, inFlight, outstanding, shownRequest, statusState, refreshes>>

\* AuthProvider's initializeAuth ends: verifyToken found the stored token
\* valid and updateAuthState sets isAuthenticated; the page renders again and
\* its mount effect, which depends on authState.isAuthenticated, runs again
verifyToken ==
    /\ Mounted
    /\ ~isAuthenticated
    /\ isAuthenticated' = TRUE
    /\ effectTimer' = TRUE
    /\ lastStep' = Step("verifyToken", NoOutcome, <<>>, "", "", Len(defectRegistry))
    /\ UNCHANGED <<registryVars, functionVars, page, pathname, intervalAuth, isLoading, error,
                   overviewState, reportState, autoRefresh, toastState, inFlight, outstanding,
                   shownRequest, statusState, refreshes>>

\* the header's Logout: authService.logout() and navigate('/')
handleLogout ==
    /\ Mounted
    /\ isAuthenticated
    /\ isAuthenticated' = FALSE
    /\ pathname' = "/"
    /\ effectTimer' = FALSE
    /\ lastStep' = Step("logout", NoOutcome, <<>>, "", "", Len(defectRegistry))
    /\ UNCHANGED <<registryVars, functionVars, page, intervalAuth, isLoading, error,
                   overviewState, reportState, autoRefresh, toastState, inFlight, outstanding,
                   shownRequest, statusState, refreshes>>

NextPage ==
    \/ verifyToken
    \/ handleLogout
    \/ EffectTimer
    \/ IntervalTick
    \/ handleRefreshStatus
    \/ setAutoRefresh
    \/ fetchOverviewData
    \/ fetchDetectionEvents
    \/ handleStatusChange
    \/ handleStatusChangeDone
    \/ ToastTimeout

SpecPage == InitPage /\ [][NextPage]_vars

----------------------------------------------------------------------------
(* The application: the reconciler driven on its own, or one page mounted *)

InitApp == Init \/ InitPage

NextApp == Next \/ NextPage

SpecApp == InitApp /\ [][NextApp]_vars

----------------------------------------------------------------------------
(* The snapshots: those the generator returns and those a page installs *)

InitSnapshots == InitFunctions \/ InitPage

NextSnapshots == NextFunctions \/ NextPage

SpecSnapshots == InitSnapshots /\ [][NextSnapshots]_vars

----------------------------------------------------------------------------
(* Vocabulary of the properties *)

\* the (location, defectType) pair of a detection or of a registry entry
PairOf(x) == <<x.location, x.defectType>>

\* the pairs a subsystem reports in a snapshot
ControlPairs(status) ==
    { PairOf(status.controlSystem.detections[i]) : i \in 1..Len(status.controlSystem.detections) }
DronePairs(status) ==
    { PairOf(status.drone.detections[i]) : i \in 1..Len(status.drone.detections) }

\* pairs reported by both subsystems, and pairs reported by exactly one
AgreedPairs(status) == ControlPairs(status) \cap DronePairs(status)
OneSidedPairs(status) ==
    (ControlPairs(status) \cup DronePairs(status)) \ AgreedPairs(status)

\* the entries of a registry, and those of one pair
Entries(reg) == { reg[i] : i \in 1..Len(reg) }
EntriesOf(reg, pair) == { e \in Entries(reg) : PairOf(e) = pair }

\* a step that is one reconcile call
ReconcileStep == calls' = calls + 1

\* a is an instant not before the instant b (ISO timestamps <<day, tick>>)
NotBefore(a, b) == a[1] > b[1] \/ (a[1] = b[1] /\ a[2] >= b[2])

----------------------------------------------------------------------------
(* C1  Agreement gate.  In every reconcile call, for a pair that only one  *)
(* of the two subsystems reports, the returned registry holds no entry of  *)
(* that pair that the registry passed in did not already hold with exactly *)
(* the same fields: none is created and none is modified.                  *)
C1_AgreementGate ==
    [][ ReconcileStep =>
          \A pair \in OneSidedPairs(leakageStatus') :
              EntriesOf(registry', pair) \subseteq EntriesOf(registry, pair) ]_vars

(* C2  Key uniqueness.  No two entries of the registry have the same       *)
(* (location, defectType) pair, in any state of a session.                 *)
C2_KeyUniqueness ==
    \A i, j \in 1..Len(registry) :
        i # j => PairOf(registry[i]) # PairOf(registry[j])

\* a pair was created by the first call and detected again by the second
C2_Witness ==
    /\ calls = 2
    /\ Len(issuedIds) = 1
    /\ \E e \in Entries(registry) :
          /\ e.id = issuedIds[1]
          /\ e.lastDetected = currentTimestamp
          /\ PairOf(e) \in AgreedPairs(leakageStatus)
          /\ e.aiConfidence = 85

(* C3  Bounded size.  The registry never has more than                     *)
(* MAX_DEFECT_REGISTRY_SIZE (15) entries.                                  *)
C3_BoundedSize == Len(registry) <= 15

\* a call merged a sixteenth entry and cut the registry back to 15
C3_Witness == calls >= 1 /\ Len(registry) = 15 /\ Len(truncated) = 1

Ordered(reg) ==
    \A i, j \in 1..Len(reg) :
        i < j =>
            /\ reg[j].lastDetected # <<>> => reg[i].lastDetected # <<>>
            /\ (reg[i].lastDetected # <<>> /\ reg[j].lastDetected # <<>>)
                   => NotBefore(reg[i].lastDetected, reg[j].lastDetected)
            /\ (reg[i].lastDetected = <<>> /\ reg[j].lastDetected = <<>>)
                   => reg[i].detectedDate[1] >= reg[j].detectedDate[1]

(* C4  Ordering.  In the registry returned by a reconcile call every entry *)
(* with lastDetected precedes every entry without; among the entries with  *)
(* lastDetected the timestamps do not increase from front to back; among   *)
(* the others the detectedDate values do not increase from front to back.  *)
C4_Ordering == calls >= 1 => Ordered(registry)

\* two entries detected at different instants ahead of entries never detected
C4_Witness ==
    /\ calls >= 1
    /\ Len(registry) >= 4
    /\ registry[1].lastDetected # <<>>
    /\ registry[2].lastDetected # <<>>
    /\ registry[1].lastDetected # registry[2].lastDetected
    /\ registry[3].lastDetected = <<>>
    /\ registry[3].detectedDate # registry[4].detectedDate

----------------------------------------------------------------------------
C6_IdStability ==
    [][ ReconcileStep =>
          /\ \A e \in Entries(registry) :
                 \A f \in EntriesOf(registry', PairOf(e)) : f.id = e.id
          /\ \A k \in (Len(issuedIds) + 1)..Len(issuedIds') :
                 \A f \in Entries(registry') :
                     f.id = issuedIds'[k] => EntriesOf(registry, PairOf(f)) = {} ]_vars

\* DEF-001 was detected again in two calls and no id was allocated
C6_Witness ==
    /\ calls = 2
    /\ issuedIds = <<>>
    /\ \E e \in Entries(registry) :
          /\ e.id = "DEF-001"
          /\ e.lastDetected = currentTimestamp
          /\ e.detectedDate = currentDate
          /\ currentDate # <<StartDay>>

SeedIds ==
    { "DEF-001", "DEF-002", "DEF-003", "DEF-004", "DEF-005", "DEF-006",
      "DEF-007", "DEF-008", "DEF-009", "DEF-010", "DEF-011", "DEF-012" }

\* the ids DEF-000 .. DEF-199 as written out in full, by number
IdText == [n \in 0..199 |->
              "DEF-" \o (IF n < 10 THEN "00" ELSE IF n < 100 THEN "0" ELSE "") \o ToString(n)]

\* the number an id text stands for, -1 when it is no such text
IdNumber(id) ==
    IF \E n \in DOMAIN IdText : IdText[n] = id
    THEN CHOOSE n \in DOMAIN IdText : IdText[n] = id
    ELSE -1

(* C7  Id allocation.  The ids generateDefectId hands out in a session are *)
(* strictly increasing in allocation order (so pairwise distinct), their   *)
(* numbers are above 100, none is a seed id DEF-001..DEF-012, and a call   *)
(* never hands out an id that an entry of the registry holds or that an    *)
(* entry removed by truncation held.                                       *)
C7_IdAllocation ==
    /\ [](\A i, j \in 1..Len(issuedIds) :
              i < j => /\ issuedIds[i] # issuedIds[j]
                       /\ IdNumber(issuedIds[i]) < IdNumber(issuedIds[j]))
    /\ [](\A i \in 1..Len(issuedIds) :
              IdNumber(issuedIds[i]) > 100 /\ issuedIds[i] \notin SeedIds)
    /\ [][ ReconcileStep =>
             \A k \in (Len(issuedIds) + 1)..Len(issuedIds') :
                 /\ issuedIds'[k] \notin retiredIds
                 /\ issuedIds'[k] \notin { e.id : e \in Entries(registry) } ]_vars

\* two ids were handed out, the second after a truncation had removed an entry
C7_Witness ==
    /\ Len(issuedIds) = 2
    /\ Cardinality(retiredIds) = 2
    /\ issuedIds[1] = "DEF-101"
    /\ issuedIds[2] = "DEF-102"

----------------------------------------------------------------------------
(* C8  Creation.  In every reconcile call, a pair that both subsystems     *)
(* report and that the registry does not hold gets exactly one entry in    *)
(* the returned registry, with the classifier's risk level for its type,   *)
(* lastDetected equal to the timestamp of the call, and status pending for *)
(* critical or low risk and progress for warning risk.                     *)
C8_Creation ==
    [][ ReconcileStep =>
          \A pair \in AgreedPairs(leakageStatus') :
              EntriesOf(registry, pair) = {} =>
                  /\ Cardinality(EntriesOf(registry', pair)) = 1
                  /\ \A e \in EntriesOf(registry', pair) :
                        /\ e.riskLevel = getRiskLevel(pair[2]).level
                        /\ e.lastDetected = currentTimestamp'
                        /\ e.status = IF e.riskLevel = "warning" THEN "progress" ELSE "pending" ]_vars

(* C9  Re-detection timestamp.  When two consecutive reconcile calls both  *)
(* carry an agreeing detection of the same pair and the second call's      *)
(* timestamp is later than the first's, the registry after the second call *)
(* holds exactly one entry of that pair and its lastDetected is the second *)
(* call's timestamp.                                                       *)
C9_RedetectionTimestamp ==
    [][ ( /\ ReconcileStep
          /\ calls >= 1
          /\ NotBefore(currentTimestamp', currentTimestamp)
          /\ currentTimestamp' # currentTimestamp ) =>
          \A pair \in AgreedPairs(leakageStatus) \cap AgreedPairs(leakageStatus') :
              /\ Cardinality(EntriesOf(registry', pair)) = 1
              /\ \A e \in EntriesOf(registry', pair) : e.lastDetected = currentTimestamp' ]_vars

\* the entries of the registry passed in whose pair the returned registry lacks
Gone == { e \in Entries(registry) : EntriesOf(registry', PairOf(e)) = {} }

\* the snapshot is one detection per subsystem, both of the same pair
SingleAgreeingDetection(status) ==
    /\ Len(status.controlSystem.detections) = 1
    /\ Len(status.drone.detections) = 1
    /\ PairOf(status.controlSystem.detections[1]) = PairOf(status.drone.detections[1])

(* C10  Truncation drops the oldest.  A reconcile call returns the merged  *)
(* entries up to 15 of them; when it drops entries, every dropped entry    *)
(* sorts after every retained one.  From 15 entries without lastDetected   *)
(* and a snapshot that is one agreeing detection of an absent pair, the    *)
(* new entry comes out first and the one entry dropped is an old entry of  *)
(* the oldest detectedDate.                                                *)
C10_TruncationDropsOldest ==
    [][ ReconcileStep =>
          LET merged == Len(registry) + Len(issuedIds') - Len(issuedIds)
          IN  /\ Len(registry') = IF merged > 15 THEN 15 ELSE merged
              /\ Cardinality(Gone) = merged - Len(registry')
              /\ \A d \in Gone : \A r \in Entries(registry') : Ordered(<<r, d>>)
              /\ ( /\ Len(registry) = 15
                   /\ \A e \in Entries(registry) : e.lastDetected = <<>>
                   /\ SingleAgreeingDetection(leakageStatus')
                   /\ EntriesOf(registry, PairOf(leakageStatus'.drone.detections[1])) = {} )
                 => /\ PairOf(registry'[1]) = PairOf(leakageStatus'.drone.detections[1])
                    /\ registry'[1].id = issuedIds'[Len(issuedIds')]
                    /\ Cardinality(Gone) = 1
                    /\ \A d \in Gone : \A e \in Entries(registry) :
                           d.detectedDate[1] <= e.detectedDate[1] ]_vars

\* the full registry met one agreeing detection of a new pair: the new entry
\* is first, DEF-015 of the oldest date is gone, the rest was never detected
C10_Witness ==
    /\ calls = 1
    /\ SingleAgreeingDetection(leakageStatus)
    /\ Len(registry) = 15
    /\ registry[1].id = "DEF-101"
    /\ registry[1].lastDetected = currentTimestamp
    /\ \A i \in 2..15 : registry[i].lastDetected = <<>>
    /\ Len(truncated) = 1
    /\ truncated[1].id = "DEF-015"

----------------------------------------------------------------------------
(* C11  Uncorroborated entries survive untouched.  In every reconcile call *)
(* an entry of the registry passed in whose pair only one of the two       *)
(* subsystems reports is an entry of the returned registry, with every     *)
(* field as it was.                                                        *)
C11_UncorroboratedUntouched ==
    [][ ReconcileStep =>
          \A e \in Entries(registry) :
              PairOf(e) \in OneSidedPairs(leakageStatus') => e \in Entries(registry') ]_vars

----------------------------------------------------------------------------
(* C14  Risk classifier.  getRiskLevel gives critical for Major/Sudden     *)
(* Leak and Mechanical Damage, warning for Minor/Gradual Leak and Poor     *)
(* Pipe Support, low for Corrosion & Erosion and Insulation/Coating        *)
(* Failure, and level warning with label Unknown for every other string.   *)
C14_RiskClassifier ==
    \A c \in { classified[i] : i \in 1..Len(classified) } :
        /\ c.defectType \in {"Major/Sudden Leak", "Mechanical Damage"} => c.riskInfo.level = "critical"
        /\ c.defectType \in {"Minor/Gradual Leak", "Poor Pipe Support"} => c.riskInfo.level = "warning"
        /\ c.defectType \in {"Corrosion & Erosion", "Insulation/Coating Failure"} => c.riskInfo.level = "low"
        /\ c.defectType \notin {"Major/Sudden Leak", "Mechanical Damage", "Minor/Gradual Leak",
                                 "Poor Pipe Support", "Corrosion & Erosion", "Insulation/Coating Failure"}
               => c.riskInfo.level = "warning" /\ c.riskInfo.label = "Unknown"

(* C19  Synthetic snapshots always agree.  In every snapshot that          *)
(* generateLeakageStatus returns the two detection lists have the same     *)
(* length, the i-th detections of both have the same defectType and the    *)
(* same location, every key of the map the reconciler builds from it       *)
(* carries a detection of both subsystems, and the lists are empty or of   *)
(* 1 to 3 detections.                                                      *)
C19_SyntheticSnapshotsAgree ==
    \A s \in { generated[i] : i \in 1..Len(generated) } :
        LET control == s.controlSystem.detections
            drone   == s.drone.detections
            map     == locationDefectMap(s)
        IN  /\ Len(control) = Len(drone)
            /\ \A i \in 1..Len(control) :
                   /\ control[i].defectType = drone[i].defectType
                   /\ control[i].location = drone[i].location
            /\ \A k \in 1..Len(map) : BothDetected(map[k])
            /\ OneSidedPairs(s) = {}
            /\ Len(control) \in 0..3
            /\ (s.controlSystem.status = "detected" \/ s.totalLeakages > 0) => Len(control) \in 1..3

\* a snapshot of three detections per subsystem, of three different pairs
C19_Witness ==
    /\ Len(generated) = 1
    /\ Len(generated[1].controlSystem.detections) = 3
    /\ Len(generated[1].drone.detections) = 3
    /\ Cardinality(AgreedPairs(generated[1])) = 3
    /\ generated[1].totalLeakages = 3

(* C20  Confidence range.  Every entry of the registry has an aiConfidence *)
(* between 85 and 99, in the initial registry and after every reconcile    *)
(* call.                                                                   *)
C20_ConfidenceRange ==
    \A e \in Entries(registry) : e.aiConfidence \in 85..99

----------------------------------------------------------------------------
(* The pages: vocabulary of the claims *)

\* the step just taken handled the response of a fetch in the mounted page
FetchHandled(step) == step.op \in { "loaded", "failed", "unauthorized" }

\* the request of the step failed: no response, a status that is not ok, or
\* a body that does not parse
RequestFailed(step) ==
    step.kind = "rejected" \/ ~ResponseOk(step.status) \/ step.body = <<>>

\* the fields of a registry entry other than its status
OtherFields(entry) == DOMAIN entry \ { "status" }

\* the ids of the entries of a registry whose status is resolved
ResolvedIds(reg) == { reg[i].id : i \in { j \in 1..Len(reg) : reg[j].status = "resolved" } }

\* the events of the response the step loaded
LoadedEvents(step) ==
    IF step.op = "loaded" /\ step.body # <<>>
    THEN { step.body[1].events[i] : i \in 1..Len(step.body[1].events) }
    ELSE {}

(* C13  Resolved is operator-only, as claimed.  No reconcile call makes an *)
(* entry resolved that was not, and an entry of the page's registry        *)
(* becomes resolved only when handleStatusChange has set it to resolved.   *)
C13_ResolvedOperatorOnly ==
    [][ /\ ResolvedIds(registry') \subseteq ResolvedIds(registry)
        /\ \A id \in ResolvedIds(defectRegistry') \ ResolvedIds(defectRegistry) :
               /\ lastStep'.op = "statusUpdated"
               /\ lastStep'.defectId = id
               /\ lastStep'.newStatus = "resolved" ]_vars

(* C13  as amended.  No reconcile call makes an entry resolved that was    *)
(* not; an entry of the page's registry becomes resolved only when         *)
(* handleStatusChange has set it to resolved after a successful remote     *)
(* call, or when a fetch has replaced the registry by the events of the    *)
(* backend and the backend's event of that id has status resolved.         *)
C13_ResolvedByOperatorOrBackend ==
    [][ /\ ResolvedIds(registry') \subseteq ResolvedIds(registry)
        /\ \A id \in ResolvedIds(defectRegistry') \ ResolvedIds(defectRegistry) :
               \/ /\ lastStep'.op = "statusUpdated"
                  /\ lastStep'.defectId = id
                  /\ lastStep'.newStatus = "resolved"
               \/ \E event \in LoadedEvents(lastStep') :
                     event.id = id /\ event.status = "resolved" ]_vars

\* the operator resolved the second entry, which the backend had in progress
C13_Witness ==
    /\ lastStep.op = "statusUpdated"
    /\ lastStep.defectId = "2"
    /\ lastStep.newStatus = "resolved"
    /\ Len(defectRegistry) = 2
    /\ defectRegistry[2].id = "2" /\ defectRegistry[2].status = "resolved"
    /\ defectRegistry[1].status = "pending"

(* C15  Acquisition failure keeps the registry, as claimed.  When a fetch  *)
(* of detection events fails with a status other than 401, the defect      *)
(* registry the page held is left exactly as it was and an error is set.   *)
C15_FailureKeepsRegistry ==
    [][ (lastStep'.op = "failed" /\ lastStep'.status # 401 /\ page = "report")
            => (defectRegistry' = defectRegistry /\ error' # <<>>) ]_vars

(* C15  as amended.  When a fetch fails and its error message contains     *)
(* neither 'Unauthorized' nor '401', the report page sets error to the     *)
(* message, clears its defect registry and sets isEmpty; the overview page *)
(* sets error to the message and replaces its leakage status by the empty  *)
(* ok status; both end loading and neither redirects.                      *)
C15_FailureClearsRegistry ==
    (/\ FetchHandled(lastStep)
     /\ RequestFailed(lastStep)
     /\ ~Includes(lastStep.message, "Unauthorized")
     /\ ~Includes(lastStep.message, "401"))
        => /\ error = << lastStep.message >>
           /\ ~isLoading
           /\ pathname = PagePath(page)
           /\ page = "report" => (defectRegistry = <<>> /\ isEmpty)
           /\ page = "overview" => pageLeakageStatus = << DefaultEmptyStatus >>

\* a server error came back while the report held two entries
C15_Witness ==
    /\ page = "report"
    /\ lastStep.op = "failed"
    /\ lastStep.status = 500
    /\ lastStep.held = 2
    /\ defectRegistry = <<>>
    /\ isEmpty
    /\ error # <<>>

(* C16  Unauthorized is distinguishable.  A fetch whose response is 401    *)
(* ends with the redirect to the login page and not in the error state,    *)
(* and no other outcome of a fetch ends with that redirect.                *)
C16_UnauthorizedDistinguishable ==
    FetchHandled(lastStep) =>
        /\ lastStep.status = 401 => (pathname = LoginPath /\ lastStep.op = "unauthorized")
        /\ lastStep.status # 401 => (pathname # LoginPath /\ lastStep.op # "unauthorized")

(* C17  Status update side channel.  When handleStatusChange(defectId,     *)
(* newStatus) ends after a successful remote call, the entry of the local  *)
(* registry with that id has status newStatus, all its other fields are    *)
(* as before, and every other entry is as before.                          *)
C17_StatusUpdateFrame ==
    [][ lastStep'.op = "statusUpdated" =>
          /\ Len(defectRegistry') = Len(defectRegistry)
          /\ \A i \in 1..Len(defectRegistry) :
                IF defectRegistry[i].id = lastStep'.defectId
                THEN /\ defectRegistry'[i].status = lastStep'.newStatus
                     /\ \A f \in OtherFields(defectRegistry[i]) : defectRegistry'[i][f] = defectRegistry[i][f]
                ELSE defectRegistry'[i] = defectRegistry[i] ]_vars

\* the first of two entries was set to progress, the second kept its status
C17_Witness ==
    /\ lastStep.op = "statusUpdated"
    /\ lastStep.defectId = "1"
    /\ lastStep.newStatus = "progress"
    /\ Len(defectRegistry) = 2
    /\ defectRegistry[1].id = "1" /\ defectRegistry[1].status = "progress"
    /\ defectRegistry[2].id = "2" /\ defectRegistry[2].status = "progress"
    /\ defectRegistry[1].aiConfidence = 92

(* C18  Refreshes never overlap.  At most one refresh (a fetch and the     *)
(* application of its result) is in progress at any moment.                *)
C18_RefreshesNeverOverlap ==
    inFlight <= 1

----------------------------------------------------------------------------
(* The reconciler: further vocabulary *)

\* the entry of a registry with this id, <<>> when it has none
EntryWithId(reg, id) ==
    IF \E e \in Entries(reg) : e.id = id THEN << CHOOSE e \in Entries(reg) : e.id = id >> ELSE <<>>

\* the entries the last call wrote over an entry the registry already held
UpdatedEntries ==
    { e \in Entries(registry') :
        /\ EntryWithId(registry, e.id) # <<>>
        /\ EntryWithId(registry, e.id)[1] # e }

\* no two entries of the list agree in what f gives for them
Injective(reg, f(_)) == \A i, j \in 1..Len(reg) : i # j => f(reg[i]) # f(reg[j])

IdOf(e) == e.id

(* C21  Risk fields track the type.  After a reconcile call has updated an *)
(* existing entry, its riskLevel, riskLabel and riskIcon are those that    *)
(* getRiskLevel returns for its defectType, whatever they were before.     *)
C21_RiskFieldsTrackType ==
    [][ ReconcileStep =>
          \A e \in UpdatedEntries :
              /\ e.riskLevel = getRiskLevel(e.defectType).level
              /\ e.riskLabel = getRiskLevel(e.defectType).label
              /\ e.riskIcon = getRiskLevel(e.defectType).icon ]_vars

C25_InitialRegistryInvariants ==
    (calls = 0 /\ registry = getInitialDefectRegistry) =>
        /\ Len(registry) <= MAX_DEFECT_REGISTRY_SIZE
        /\ Injective(registry, PairOf)
        /\ Injective(registry, IdOf)
        /\ \A i, j \in 1..Len(registry) :
              i < j => GetTime(registry[i].detectedDate) >= GetTime(registry[j].detectedDate)

\* a session that starts from the twelve static entries
C25_Witness ==
    /\ calls = 0
    /\ registry = getInitialDefectRegistry
    /\ Len(registry) = 12
    /\ registry[1].id = "DEF-001"
    /\ registry[12].id = "DEF-012"

(* C26  Distinct pairs are never merged.  In the map a reconcile call      *)
(* builds, the detections under one key all have the same (location,       *)
(* defectType) pair: a key that carries a control detection and a drone    *)
(* detection carries two detections of one pair, and two detections of     *)
(* different pairs have different keys.                                     *)
C26_DistinctPairsNotMerged ==
    /\ \A k \in 1..Len(locationDefectMap(leakageStatus)) :
          BothDetected(locationDefectMap(leakageStatus)[k]) =>
              PairOf(locationDefectMap(leakageStatus)[k].controlSystem[1])
                  = PairOf(locationDefectMap(leakageStatus)[k].drone[1])
    /\ \A c \in Entries(leakageStatus.controlSystem.detections) \cup Entries(leakageStatus.drone.detections) :
          \A d \in Entries(leakageStatus.controlSystem.detections) \cup Entries(leakageStatus.drone.detections) :
              PairOf(c) # PairOf(d) => Key(c) # Key(d)

(* C27  Last detection time is monotone.  In every reconcile call an entry *)
(* that had a lastDetected and stays in the registry still has one, and it *)
(* is not earlier than before; an entry whose pair neither subsystem       *)
(* reports keeps its lastDetected as it was.                               *)
C27_LastDetectedMonotone ==
    [][ ReconcileStep =>
          \A old \in Entries(registry) :
              \A e \in Entries(registry') :
                  e.id = old.id =>
                     /\ old.lastDetected # <<>> =>
                           /\ e.lastDetected # <<>>
                           /\ GetTime(e.lastDetected) >= GetTime(old.lastDetected)
                     /\ PairOf(old) \notin (ControlPairs(leakageStatus') \cup DronePairs(leakageStatus'))
                           => e.lastDetected = old.lastDetected ]_vars

\* the entry added by the first call was not reported in the second, which
\* re-detected another entry: it keeps the timestamp of the first call
C27_Witness ==
    /\ calls = 2
    /\ \E e \in Entries(registry) :
          /\ e.id = "DEF-101"
          /\ e.lastDetected # <<>>
          /\ e.lastDetected # currentTimestamp
          /\ PairOf(e) \notin (ControlPairs(leakageStatus) \cup DronePairs(leakageStatus))
    /\ \E e \in Entries(registry) :
          /\ e.id = "DEF-050"
          /\ e.lastDetected = currentTimestamp
          /\ GetTime(e.lastDetected) > GetTime(<<360, 0>>)

----------------------------------------------------------------------------
(* The snapshots: vocabulary *)

\* a subsystem's status is detected exactly when it lists a detection
SubsystemConsistent(subsystem) ==
    /\ subsystem.status \in { "ok", "detected" }
    /\ subsystem.status = "detected" <=> Len(subsystem.detections) > 0

\* the detections of both subsystems of a snapshot
DetectionsOf(s) == Entries(s.controlSystem.detections) \cup Entries(s.drone.detections)

\* the scenario of defectScenarios with this type
ScenariosOf(type) == { sc \in Entries(defectScenarios) : sc.type = type }

(* C23  Snapshot status invariant.  In every snapshot generateLeakageStatus *)
(* returns and in every snapshot the overview page installs, the default   *)
(* after a failed fetch included, each subsystem's status is detected      *)
(* exactly when its detections list is not empty.                          *)
C23_SnapshotStatusInvariant ==
    /\ \A i \in 1..Len(generated) :
          SubsystemConsistent(generated[i].controlSystem) /\ SubsystemConsistent(generated[i].drone)
    /\ \A i \in 1..Len(pageLeakageStatus) :
          SubsystemConsistent(pageLeakageStatus[i].controlSystem) /\ SubsystemConsistent(pageLeakageStatus[i].drone)

\* the overview page has installed a snapshot with detections of both subsystems
C23_Witness ==
    /\ page = "overview"
    /\ lastStep.op = "loaded"
    /\ pageLeakageStatus # <<>>
    /\ pageLeakageStatus[1].controlSystem.status = "detected"
    /\ Len(pageLeakageStatus[1].drone.detections) = 1
    /\ pageLeakageStatus[1].drone.detections[1].defectType = "Major/Sudden Leak"

(* C24  Generator excludes one-sided types.  The scenarios the generator   *)
(* selects from all have a control-system and a drone signature, and no    *)
(* detection of a generated snapshot has a defect type whose scenario lacks *)
(* one of the two; Mechanical Damage never appears.                         *)
C24_GeneratorExcludesOneSided ==
    /\ \A sc \in Entries(defectsWithBothSystems) : Len(sc.controlSystem) > 0 /\ Len(sc.drone) > 0
    /\ \A i \in 1..Len(generated) :
          \A d \in DetectionsOf(generated[i]) :
              /\ d.defectType # "Mechanical Damage"
              /\ ScenariosOf(d.defectType) # {}
              /\ \A sc \in ScenariosOf(d.defectType) : Len(sc.controlSystem) > 0 /\ Len(sc.drone) > 0

\* the draw 0.5 selected the third of the five remaining scenarios, the one
\* that precedes Mechanical Damage in defectScenarios, and the draw 0.999 the last
C24_Witness ==
    /\ Len(generated) = 1
    /\ Len(generated[1].controlSystem.detections) = 2
    /\ generated[1].controlSystem.detections[1].defectType = "Corrosion & Erosion"
    /\ generated[1].controlSystem.detections[2].defectType = "Poor Pipe Support"

----------------------------------------------------------------------------
(* C28  Latest refresh wins.  On the overview page the result of an        *)
(* earlier refresh never replaces the result of a later one, and once no   *)
(* refresh is outstanding the page shows the result of the refresh that    *)
(* was started last.                                                       *)
C28_LatestRefreshWins ==
    /\ [](page = "overview" /\ Mounted /\ outstanding = {} /\ shownRequest # 0
            => shownRequest = refreshes)
    /\ [][ page = "overview" => shownRequest' >= shownRequest ]_vars

(* C29  A status update is not lost to an in-flight refresh.  On the       *)
(* report page, when the response of a fetch that was already in flight    *)
(* at the moment a status change was applied is handled, the changed entry *)
(* still has the status the operator gave it.                              *)
C29_StatusUpdateNotLost ==
    [][ (/\ page = "report"
         /\ lastStep.op = "statusUpdated"
         /\ lastStep'.op \in { "loaded", "failed" })
          => \A old \in Entries(defectRegistry) :
                old.id = lastStep.defectId =>
                   \E e \in Entries(defectRegistry') : e.id = old.id /\ e.status = lastStep.newStatus ]_vars

(* C30  The periodic refresh sees the current authentication state.  When  *)
(* the 30-second timer of the overview page fires while the user is        *)
(* authenticated the page is not redirected to login, and when it fires    *)
(* while the user is not authenticated no request is sent.                 *)
C30_IntervalSeesCurrentAuth ==
    [][ (page = "overview" /\ lastStep'.op = "intervalRefresh" /\ refreshes' = refreshes + 1)
          => /\ isAuthenticated => (pathname' # LoginPath /\ lastStep'.kind = "requested")
             /\ ~isAuthenticated => (inFlight' = inFlight /\ lastStep'.kind = "redirected") ]_vars

====
